---- MODULE Spec2Model ----
(***************************************************************************)
(* Model of drivers/crypto/stm32_rng.c: the STM32 hardware random number   *)
(* generator driver.  The peripheral is three 32-bit registers (control,   *)
(* status, data) behind a gating clock.  stm32_rng_read enables the clock  *)
(* and the generator, polls the status register with a bounded budget,     *)
(* drains ready words into the caller's buffer, restores the control       *)
(* register and disables the clock.  Every register access and every clock *)
(* operation of the driver is one step of the model.                       *)
(***************************************************************************)
EXTENDS Integers, Naturals, Sequences, FiniteSets, TLC

(* ------------------------------------------------------------------------ *)
(* Register bits and driver constants                                       *)
(* ------------------------------------------------------------------------ *)

RNG_CR_RNGEN == 4

RNG_SR_SEIS == 64

RNG_SR_CEIS == 32

RNG_SR_DRDY == 1

RNG_TIMEOUT == 500

\* sizeof(u32)
WordSize == 4

\* errno value of EIO; stm32_rng_read returns -EIO
EIO == 5

(* ------------------------------------------------------------------------ *)
(* Bounds of the model                                                      *)
(* ------------------------------------------------------------------------ *)

\* largest requested length (max), and the size of the caller's buffer
MaxLen == 16

\* the driver contexts that may call into one driver instance
Procs == {1, 2}

\* Values the control register may hold before the driver touches it: the
\* generator-enable bit (bit 2) and one other control bit (bit 3), independently.
ControlValues == {0, 4, 8, 12}

\* Values a read of the status register may return: Data-Ready (bit 0), the two
\* latched error flags (bits 5 and 6), and one status bit the driver does not
\* name (bit 1), independently.
StatusValues ==
    {d + o + c + s : d \in {0, RNG_SR_DRDY}, o \in {0, 2},
                     c \in {0, RNG_SR_CEIS}, s \in {0, RNG_SR_SEIS}}

\* 32-bit words the data register may present (0x01020304, 0x7A6B5C4D)
DataValues == {16909060, 2053856333}

\* the content of every byte of the caller's buffer before the call
InitBuf == [i \in 0..(MaxLen - 1) |-> 238]

(* ------------------------------------------------------------------------ *)
(* Bit operations on register values (b is a single bit, a power of two)    *)
(* ------------------------------------------------------------------------ *)

HasBit(v, b) == (v \div b) % 2 = 1

\* v | b
OrBit(v, b) == IF HasBit(v, b) THEN v ELSE v + b

\* v & ~b
ClearBit(v, b) == IF HasBit(v, b) THEN v - b ELSE v

\* v & (RNG_SR_SEIS | RNG_SR_CEIS)
ErrBits(v) ==
    (IF HasBit(v, RNG_SR_SEIS) THEN RNG_SR_SEIS ELSE 0)
    + (IF HasBit(v, RNG_SR_CEIS) THEN RNG_SR_CEIS ELSE 0)

\* byte i (0 = least significant) of the 32-bit word w
ByteOf(w, i) == (w \div (256 ^ i)) % 256

\* *(u32 *)data = w : a little-endian 32-bit store at byte offset off of b
StoreWord(b, off, w) ==
    [i \in DOMAIN b |->
        IF i >= off /\ i < off + WordSize THEN ByteOf(w, i - off) ELSE b[i]]

VARIABLES
    regCR,       \* the peripheral's control register
    regSR,       \* the latched error flags of the peripheral's status register
    notReady,    \* status reads the generator still answers with no flag set
    clkPrepare,  \* prepare count of the gating clock
    clkEnable,   \* enable count of the gating clock
    procs,       \* the contexts that call into the instance
    bind,        \* the binding of the driver to the device (stm32_rng_probe)
    pc,          \* pc[p]: the statement context p executes next
    op,          \* op[p]: the operation context p is in, or was last in
    cr,          \* cr[p]: stm32_rng_read's local cr
    sr,          \* sr[p]: the local sr (stm32_rng_read, stm32_rng_init)
    retval,      \* retval[p]: stm32_rng_read's local retval
    data,        \* data[p]: offset of the data pointer into the buffer
    max,         \* max[p]: remaining space
    wait,        \* wait[p]: the blocking flag
    timeout,     \* timeout[p]: the local timeout of the busy-wait
    buf,         \* buf[p]: the caller's buffer, byte by byte
    result,      \* result[p]: the value the last operation returned
    hist         \* what the current (or last) call did, for the properties

locals == <<cr, sr, retval, data, max, wait, timeout, buf, result>>

hw == <<regCR, regSR, notReady>>

clk == <<clkPrepare, clkEnable>>

vars == <<regCR, regSR, notReady, clkPrepare, clkEnable, procs, bind, pc, op,
          cr, sr, retval, data, max, wait, timeout, buf, result, hist>>

(* ------------------------------------------------------------------------ *)
(* History of one call                                                      *)
(* ------------------------------------------------------------------------ *)

NoHist ==
    [ entryCR    |-> 0,      \* control register when the call was entered
      entryEn    |-> 0,      \* clock enable count when the call was entered
      len        |-> 0,      \* the requested length
      nClkEn     |-> 0,      \* clk_enable calls
      nClkDis    |-> 0,      \* clk_disable calls
      accOutside |-> FALSE,  \* a register access before clk_enable or after clk_disable
      crWrites   |-> <<>>,   \* the values written to the control register
      disAfter   |-> FALSE,  \* clk_disable ran after the restoring write
      iter       |-> 0,      \* drain loop iterations begun
      srReads    |-> 0,      \* status reads of the current iteration
      nReady     |-> 0,      \* final snapshots with Data-Ready and no error flag
      nOther     |-> 0,      \* final snapshots, nonzero, with no flag the driver names
      anyDrdy    |-> FALSE,  \* some status read had Data-Ready set
      anyErr     |-> FALSE,  \* some status read had an error flag set
      drLog      |-> <<>>,   \* the values the data register reads returned
      drNotReady |-> FALSE,  \* a data register read followed a snapshot without Data-Ready
      stop       |-> "none", \* why the drain loop ended
      crReads    |-> 0,      \* reads of the control register
      srWrites   |-> <<>>,   \* the values written to the status register
      srSeen     |-> 0,      \* the value the last status read returned
      unclocked  |-> FALSE,  \* a register access with the clock not prepared and enabled
      genOff     |-> FALSE,  \* a status or data read with generator-enable clear
      afterErr   |-> FALSE,  \* a status or data read after a status read with an error flag
      entryLatch |-> 0,      \* the latched error flags when the call was entered
      restorer   |-> 0,      \* the context whose restoring write came last
      filled     |-> FALSE,  \* stm32_rng_read has run since stm32_rng_init
      faulted    |-> FALSE   \* an earlier stm32_rng_read since then saw an error flag
    ]

\* one register access of the running call
Access(h) ==
    [h EXCEPT !.accOutside = h.accOutside \/ ~(h.nClkEn = 1 /\ h.nClkDis = 0),
              !.unclocked = h.unclocked \/ clkPrepare = 0 \/ clkEnable = 0]

\* one read of the status register returning v
SawStatus(h, v) ==
    [Access(h) EXCEPT !.srReads = h.srReads + 1,
                      !.srSeen = v,
                      !.anyDrdy = h.anyDrdy \/ HasBit(v, RNG_SR_DRDY),
                      !.anyErr  = h.anyErr \/ ErrBits(v) # 0,
                      !.afterErr = h.afterErr \/ h.anyErr]

\* a status or data read of stm32_rng_read: is the generator enabled?
WhileEnabled(h) ==
    [h EXCEPT !.genOff = h.genOff \/ ~HasBit(regCR, RNG_CR_RNGEN)]

\* a status register whose error flags clear themselves
LatchedReadsForget == StatusValues

\* the status values that keep the latched error flags set
LatchedReads ==
    {v \in StatusValues :
        /\ HasBit(regSR, RNG_SR_SEIS) => HasBit(v, RNG_SR_SEIS)
        /\ HasBit(regSR, RNG_SR_CEIS) => HasBit(v, RNG_SR_CEIS)}

\* The number of status reads an enabled generator answers with no flag set
\* before it has something to report: none, one, as many as the busy-wait can
\* still sit out (the first read and RNG_TIMEOUT - 1 re-polls), or one more.
Latencies == {0, 1, RNG_TIMEOUT, RNG_TIMEOUT + 1}

\* what a read of the status register may return while the generator runs:
\* nothing while it is not ready and no error is latched, and then any value
\* with some bit set
StatusReads ==
    IF regSR = 0 /\ notReady > 0 THEN {0} ELSE LatchedReads \ {0}

\* the generator after one read of the status register
AfterStatusRead == IF notReady > 0 THEN notReady - 1 ELSE 0

\* the binding after a stm32_rng_probe in which every step succeeded
Bound ==
    [ pc         |-> "returned", \* the statement of stm32_rng_probe to run next
      priv       |-> TRUE,     \* the private state is allocated
      base       |-> TRUE,     \* the register block is mapped
      clkh       |-> TRUE,     \* priv->clk is a clock, not an error pointer
      registered |-> TRUE,     \* the hwrng is registered
      err        |-> 0,        \* stm32_rng_probe's local err
      errSet     |-> TRUE,     \* err has been assigned
      ret        |-> 0,        \* the value stm32_rng_probe returned
      failed     |-> "none"    \* the acquisition step that failed
    ]

Init ==
    /\ regCR \in ControlValues
    /\ regSR \in {0, RNG_SR_CEIS, RNG_SR_SEIS, RNG_SR_CEIS + RNG_SR_SEIS}
    /\ notReady = 0
    /\ clkPrepare = 0
    /\ clkEnable = 0
    /\ procs = {1}
    /\ bind = Bound
    /\ pc = [p \in Procs |-> "idle"]
    /\ op = [p \in Procs |-> "none"]
    /\ cr = [p \in Procs |-> 0]
    /\ sr = [p \in Procs |-> 0]
    /\ retval = [p \in Procs |-> 0]
    /\ data = [p \in Procs |-> 0]
    /\ max = [p \in Procs |-> 0]
    /\ wait = [p \in Procs |-> FALSE]
    /\ timeout = [p \in Procs |-> 0]
    /\ buf = [p \in Procs |-> InitBuf]
    /\ result = [p \in Procs |-> 0]
    /\ hist = NoHist

\* the framework serialises the calls into one instance: a call starts only
\* when no other context is inside the driver
Serialized(p) == \A q \in Procs \ {p} : pc[q] = "idle"

\* the locals of context p at the start of a call: a fresh frame
FreshFrame(p) ==
    /\ cr' = [cr EXCEPT ![p] = 0]
    /\ sr' = [sr EXCEPT ![p] = 0]
    /\ retval' = [retval EXCEPT ![p] = 0]
    /\ data' = [data EXCEPT ![p] = 0]
    /\ max' = [max EXCEPT ![p] = 0]
    /\ wait' = [wait EXCEPT ![p] = FALSE]
    /\ timeout' = [timeout EXCEPT ![p] = 0]
    /\ buf' = [buf EXCEPT ![p] = InitBuf]
    /\ result' = [result EXCEPT ![p] = 0]

(* ------------------------------------------------------------------------ *)
(* stm32_rng_read                                                           *)
(* ------------------------------------------------------------------------ *)

\* the framework calls read(rng, data, max, wait) on an initialised instance
CallRead(p) ==
    /\ p \in procs
    /\ pc[p] = "idle"
    /\ Serialized(p)
    /\ clkPrepare > 0
    /\ \E m \in 0..MaxLen, w \in BOOLEAN :
        /\ max' = [max EXCEPT ![p] = m]
        /\ wait' = [wait EXCEPT ![p] = w]
        /\ hist' = [NoHist EXCEPT !.entryCR = regCR, !.entryEn = clkEnable,
                                  !.len = m, !.entryLatch = regSR,
                                  !.filled = TRUE,
                                  !.faulted = hist.filled /\
                                      (hist.anyErr \/ hist.faulted)]
    /\ retval' = [retval EXCEPT ![p] = 0]
    /\ data' = [data EXCEPT ![p] = 0]
    /\ buf' = [buf EXCEPT ![p] = InitBuf]
    /\ cr' = [cr EXCEPT ![p] = 0]
    /\ sr' = [sr EXCEPT ![p] = 0]
    /\ timeout' = [timeout EXCEPT ![p] = 0]
    /\ result' = [result EXCEPT ![p] = 0]
    /\ op' = [op EXCEPT ![p] = "read"]
    /\ pc' = [pc EXCEPT ![p] = "clk_enable"]
    /\ UNCHANGED <<hw, clk, procs, bind>>

\* clk_enable(priv->clk);
ReadClkEnable(p) ==
    /\ pc[p] = "clk_enable"
    /\ clkEnable' = clkEnable + 1
    /\ hist' = [hist EXCEPT !.nClkEn = hist.nClkEn + 1]
    /\ pc' = [pc EXCEPT ![p] = "read_cr"]
    /\ UNCHANGED <<hw, clkPrepare, procs, bind, op, locals>>

\* cr = readl(priv->base + RNG_CR);
ReadCR(p) ==
    /\ pc[p] = "read_cr"
    /\ cr' = [cr EXCEPT ![p] = regCR]
    /\ hist' = [Access(hist) EXCEPT !.crReads = hist.crReads + 1]
    /\ pc' = [pc EXCEPT ![p] = "enable_gen"]
    /\ UNCHANGED <<hw, clk, procs, bind, op, sr, retval, data, max, wait, timeout,
                   buf, result>>

\* an acquire step that writes the enable bit alone
EnableValueOnly(c) == RNG_CR_RNGEN

\* the value of writel(cr | RNG_CR_RNGEN, ...)
EnableValue(c) == OrBit(c, RNG_CR_RNGEN)

\* writel(cr | RNG_CR_RNGEN, priv->base + RNG_CR);
WriteEnable(p) ==
    /\ pc[p] = "enable_gen"
    /\ regCR' = EnableValue(cr[p])
    /\ hist' = [Access(hist) EXCEPT
                   !.crWrites = Append(hist.crWrites, EnableValue(cr[p]))]
    /\ notReady' \in Latencies
    /\ pc' = [pc EXCEPT ![p] = "loop"]
    /\ UNCHANGED <<regSR, clk, procs, bind, op, locals>>

\* a loop that runs while any space remains
LoopCondAnySpace(m) == m > 0

\* max > sizeof(u32)
LoopCond(m) == m > WordSize

\* while (max > sizeof(u32)) {
LoopTest(p) ==
    /\ pc[p] = "loop"
    /\ IF LoopCond(max[p])
         THEN /\ hist' = [hist EXCEPT !.iter = hist.iter + 1, !.srReads = 0]
              /\ pc' = [pc EXCEPT ![p] = "read_sr"]
         ELSE /\ hist' = [hist EXCEPT !.stop = "full"]
              /\ pc' = [pc EXCEPT ![p] = "restore"]
    /\ UNCHANGED <<hw, clk, procs, bind, op, locals>>

\* !sr && wait
MustWait(s, w) == s = 0 /\ w

\* sr = readl(priv->base + RNG_SR); if (!sr && wait) { timeout = RNG_TIMEOUT;
ReadSR(p) ==
    /\ pc[p] = "read_sr"
    /\ \E v \in StatusReads :
        /\ sr' = [sr EXCEPT ![p] = v]
        /\ regSR' = ErrBits(v)
        /\ notReady' = AfterStatusRead
        /\ hist' = WhileEnabled(SawStatus(hist, v))
        /\ IF MustWait(v, wait[p])
             THEN /\ timeout' = [timeout EXCEPT ![p] = RNG_TIMEOUT]
                  /\ pc' = [pc EXCEPT ![p] = "poll"]
             ELSE /\ UNCHANGED timeout
                  /\ pc' = [pc EXCEPT ![p] = "check"]
    /\ UNCHANGED <<regCR, clk, procs, bind, op, cr, retval, data, max, wait, buf,
                   result>>

\* a poll that ignores its budget
PollAgainForever(s, t) == s = 0

\* !sr && --timeout, t being the value --timeout yields
PollAgain(s, t) == s = 0 /\ t # 0

\* do { cpu_relax(); sr = readl(priv->base + RNG_SR); } while (!sr && --timeout);
Poll(p) ==
    /\ pc[p] = "poll"
    /\ \E v \in StatusReads :
        /\ sr' = [sr EXCEPT ![p] = v]
        /\ regSR' = ErrBits(v)
        /\ notReady' = AfterStatusRead
        /\ hist' = WhileEnabled(SawStatus(hist, v))
        /\ IF PollAgain(v, timeout[p] - 1)
             THEN /\ timeout' = [timeout EXCEPT ![p] = timeout[p] - 1]
                  /\ pc' = [pc EXCEPT ![p] = "poll"]
             ELSE \* timeout goes out of scope with the block
                  /\ timeout' = [timeout EXCEPT ![p] = 0]
                  /\ pc' = [pc EXCEPT ![p] = "check"]
    /\ UNCHANGED <<regCR, clk, procs, bind, op, cr, retval, data, max, wait, buf,
                   result>>

\* a fault test that lets a ready word through
FaultSeenUnlessReady(s) == ErrBits(s) # 0 /\ ~HasBit(s, RNG_SR_DRDY)

\* a fault test that forgets the Seed-Error flag
FaultSeenClockOnly(s) == HasBit(s, RNG_SR_CEIS)

\* sr & (RNG_SR_SEIS | RNG_SR_CEIS)
FaultSeen(s) == ErrBits(s) # 0

\* !sr
NoData(s) == s = 0

\* the snapshot that ended the poll, as the properties classify it
Classify(h, s) ==
    [h EXCEPT !.nReady = h.nReady +
                  (IF HasBit(s, RNG_SR_DRDY) /\ ErrBits(s) = 0 THEN 1 ELSE 0),
              !.nOther = h.nOther +
                  (IF s # 0 /\ ~HasBit(s, RNG_SR_DRDY) /\ ErrBits(s) = 0
                     THEN 1 ELSE 0)]

\* if (WARN_ON(sr & (RNG_SR_SEIS | RNG_SR_CEIS))) break;  if (!sr) break;
Check(p) ==
    /\ pc[p] = "check"
    /\ IF FaultSeen(sr[p])
         THEN /\ hist' = [Classify(hist, sr[p]) EXCEPT !.stop = "fault"]
              /\ pc' = [pc EXCEPT ![p] = "restore"]
         ELSE IF NoData(sr[p])
           THEN /\ hist' = [Classify(hist, sr[p]) EXCEPT
                               !.stop = IF wait[p] THEN "timeout" ELSE "empty"]
                /\ pc' = [pc EXCEPT ![p] = "restore"]
           ELSE /\ hist' = Classify(hist, sr[p])
                /\ pc' = [pc EXCEPT ![p] = "read_dr"]
    /\ UNCHANGED <<hw, clk, procs, bind, op, locals>>

\* a drain step that does not advance the data pointer
ReadDRNoAdvance(p) ==
    /\ pc[p] = "read_dr"
    /\ \E w \in DataValues :
        /\ buf' = [buf EXCEPT ![p] = StoreWord(buf[p], data[p], w)]
        /\ hist' = [WhileEnabled(Access(hist)) EXCEPT
                       !.drLog = Append(hist.drLog, w),
                       !.drNotReady = hist.drNotReady
                                        \/ ~HasBit(sr[p], RNG_SR_DRDY),
                       !.afterErr = hist.afterErr \/ hist.anyErr]
    /\ retval' = [retval EXCEPT ![p] = retval[p] + WordSize]
    /\ max' = [max EXCEPT ![p] = max[p] - WordSize]
    /\ notReady' \in Latencies
    /\ pc' = [pc EXCEPT ![p] = "loop"]
    /\ UNCHANGED <<regCR, regSR, clk, procs, bind, op, cr, sr, data, wait,
                   timeout, result>>

\* *(u32 *)data = readl(priv->base + RNG_DR);
\* retval += sizeof(u32); data += sizeof(u32); max -= sizeof(u32);
ReadDR(p) ==
    /\ pc[p] = "read_dr"
    /\ \E w \in DataValues :
        /\ buf' = [buf EXCEPT ![p] = StoreWord(buf[p], data[p], w)]
        /\ hist' = [WhileEnabled(Access(hist)) EXCEPT
                       !.drLog = Append(hist.drLog, w),
                       !.drNotReady = hist.drNotReady
                                        \/ ~HasBit(sr[p], RNG_SR_DRDY),
                       !.afterErr = hist.afterErr \/ hist.anyErr]
    /\ retval' = [retval EXCEPT ![p] = retval[p] + WordSize]
    /\ data' = [data EXCEPT ![p] = data[p] + WordSize]
    /\ max' = [max EXCEPT ![p] = max[p] - WordSize]
    /\ notReady' \in Latencies
    /\ pc' = [pc EXCEPT ![p] = "loop"]
    /\ UNCHANGED <<regCR, regSR, clk, procs, bind, op, cr, sr, wait, timeout, result>>

\* a release step that clears the generator-enable bit instead of restoring
RestoreValueClears(c) == ClearBit(c, RNG_CR_RNGEN)

\* a release step that writes back the value of the acquire step
RestoreValueKeepsEnable(c) == OrBit(c, RNG_CR_RNGEN)

\* the value of writel(cr, ...)
RestoreValue(c) == c

\* writel(cr, priv->base + RNG_CR);
Restore(p) ==
    /\ pc[p] = "restore"
    /\ regCR' = RestoreValue(cr[p])
    /\ hist' = [Access(hist) EXCEPT
                   !.crWrites = Append(hist.crWrites, RestoreValue(cr[p])),
                   !.restorer = p]
    /\ pc' = [pc EXCEPT ![p] = "clk_disable"]
    /\ UNCHANGED <<regSR, notReady, clk, procs, bind, op, locals>>

\* a release step that leaves the clock enabled after a hardware fault
ReadClkDisableUnlessFault(p) ==
    /\ pc[p] = "clk_disable"
    /\ IF hist.stop = "fault"
         THEN UNCHANGED <<clkEnable, hist>>
         ELSE /\ clkEnable' = clkEnable - 1
              /\ hist' = [hist EXCEPT !.nClkDis = hist.nClkDis + 1,
                                      !.disAfter = Len(hist.crWrites) = 2]
    /\ pc' = [pc EXCEPT ![p] = "return"]
    /\ UNCHANGED <<hw, clkPrepare, procs, bind, op, locals>>

\* clk_disable(priv->clk);
ReadClkDisable(p) ==
    /\ pc[p] = "clk_disable"
    /\ clkEnable' = clkEnable - 1
    /\ hist' = [hist EXCEPT !.nClkDis = hist.nClkDis + 1,
                            !.disAfter = Len(hist.crWrites) = 2]
    /\ pc' = [pc EXCEPT ![p] = "return"]
    /\ UNCHANGED <<hw, clkPrepare, procs, bind, op, locals>>

\* a result policy that fails every call that wrote nothing
ReturnValueNoWait(r, w) == IF r # 0 THEN r ELSE -EIO

\* retval || !wait ? retval : -EIO
ReturnValue(r, w) == IF r # 0 \/ ~w THEN r ELSE -EIO

\* return retval || !wait ? retval : -EIO;
ReadReturn(p) ==
    /\ pc[p] = "return"
    /\ result' = [result EXCEPT ![p] = ReturnValue(retval[p], wait[p])]
    /\ pc' = [pc EXCEPT ![p] = "idle"]
    /\ UNCHANGED <<hw, clk, procs, bind, op, cr, sr, retval, data, max, wait,
                   timeout, buf, hist>>

(* ------------------------------------------------------------------------ *)
(* stm32_rng_init and stm32_rng_cleanup                                     *)
(* ------------------------------------------------------------------------ *)

\* error codes clk_prepare may return (-EINVAL, -ENOMEM)
PrepareErrors == {-22, -12}

\* the framework calls init(rng) on an instance that is not initialised
CallInit(p) ==
    /\ p \in procs
    /\ pc[p] = "idle"
    /\ Serialized(p)
    /\ clkPrepare = 0
    /\ op' = [op EXCEPT ![p] = "init"]
    /\ pc' = [pc EXCEPT ![p] = "init_prepare"]
    /\ hist' = NoHist
    /\ FreshFrame(p)
    /\ UNCHANGED <<hw, clk, procs, bind>>

\* err = clk_prepare(priv->clk); if (err) return err;
InitPrepareFail(p) ==
    /\ pc[p] = "init_prepare"
    /\ \E e \in PrepareErrors : result' = [result EXCEPT ![p] = e]
    /\ pc' = [pc EXCEPT ![p] = "idle"]
    /\ UNCHANGED <<hw, clk, procs, bind, op, cr, sr, retval, data, max, wait,
                   timeout, buf, hist>>

\* err = clk_prepare(priv->clk);  (err == 0)
InitPrepareOk(p) ==
    /\ pc[p] = "init_prepare"
    /\ clkPrepare' = clkPrepare + 1
    /\ pc' = [pc EXCEPT ![p] = "init_read_sr"]
    /\ UNCHANGED <<hw, clkEnable, procs, bind, op, locals, hist>>

\* a clearing step that writes zero over the whole status register
InitStatusValueZero(v) == 0

\* sr & ~(RNG_SR_SEIS | RNG_SR_CEIS)
InitStatusValue(v) == ClearBit(ClearBit(v, RNG_SR_SEIS), RNG_SR_CEIS)

\* sr = readl(priv->base + RNG_SR); sr &= ~(RNG_SR_SEIS | RNG_SR_CEIS);
InitReadSR(p) ==
    /\ pc[p] = "init_read_sr"
    /\ \E v \in LatchedReads :
        /\ sr' = [sr EXCEPT ![p] = InitStatusValue(v)]
        /\ regSR' = ErrBits(v)
        /\ hist' = SawStatus(hist, v)
    /\ pc' = [pc EXCEPT ![p] = "init_write_sr"]
    /\ UNCHANGED <<regCR, notReady, clk, procs, bind, op, cr, retval, data, max,
                   wait, timeout, buf, result>>

\* the latched error flags after the value s is written to the status register:
\* a flag stays latched only where a one is written over it
LatchAfterWrite(latched, s) ==
    (IF HasBit(latched, RNG_SR_SEIS) /\ HasBit(s, RNG_SR_SEIS)
       THEN RNG_SR_SEIS ELSE 0)
    + (IF HasBit(latched, RNG_SR_CEIS) /\ HasBit(s, RNG_SR_CEIS)
         THEN RNG_SR_CEIS ELSE 0)

\* writel(sr, priv->base + RNG_SR); return 0;
InitWriteSR(p) ==
    /\ pc[p] = "init_write_sr"
    /\ regSR' = LatchAfterWrite(regSR, sr[p])
    /\ hist' = [Access(hist) EXCEPT !.srWrites = Append(hist.srWrites, sr[p])]
    /\ result' = [result EXCEPT ![p] = 0]
    /\ pc' = [pc EXCEPT ![p] = "idle"]
    /\ UNCHANGED <<regCR, notReady, clk, procs, bind, op, cr, sr, retval, data, max,
                   wait, timeout, buf>>

\* a cleanup that calls clk_disable_unprepare
CleanupDisableUnprepare(p) ==
    /\ p \in procs
    /\ pc[p] = "idle"
    /\ Serialized(p)
    /\ clkPrepare > 0
    /\ clkPrepare' = clkPrepare - 1
    /\ clkEnable' = clkEnable - 1
    /\ op' = [op EXCEPT ![p] = "cleanup"]
    /\ hist' = [NoHist EXCEPT !.filled = hist.filled]
    /\ FreshFrame(p)
    /\ UNCHANGED <<hw, procs, bind, pc>>

\* the framework calls cleanup(rng): clk_unprepare(priv->clk);
Cleanup(p) ==
    /\ p \in procs
    /\ pc[p] = "idle"
    /\ Serialized(p)
    /\ clkPrepare > 0
    /\ clkPrepare' = clkPrepare - 1
    /\ op' = [op EXCEPT ![p] = "cleanup"]
    /\ hist' = [NoHist EXCEPT !.filled = hist.filled]
    /\ FreshFrame(p)
    /\ UNCHANGED <<hw, clkEnable, procs, bind, pc>>

Next ==
    \E p \in Procs :
        \/ CallRead(p)
        \/ ReadClkEnable(p)
        \/ ReadCR(p)
        \/ WriteEnable(p)
        \/ LoopTest(p)
        \/ ReadSR(p)
        \/ Poll(p)
        \/ Check(p)
        \/ ReadDR(p)
        \/ Restore(p)
        \/ ReadClkDisable(p)
        \/ ReadReturn(p)
        \/ CallInit(p)
        \/ InitPrepareFail(p)
        \/ InitPrepareOk(p)
        \/ InitReadSR(p)
        \/ InitWriteSR(p)
        \/ Cleanup(p)

Spec == Init /\ [][Next]_vars

(* ------------------------------------------------------------------------ *)
(* Properties of stm32_rng_read                                             *)
(* ------------------------------------------------------------------------ *)

\* context p has returned from stm32_rng_read
Returned(p) == op[p] = "read" /\ pc[p] = "idle"

\* the bytes of p's buffer that differ from their content before the call
BytesWritten(p) == Cardinality({i \in DOMAIN buf[p] : buf[p][i] # InitBuf[i]})

\* floor(len/4)*4
RoundDown(len) == (len \div WordSize) * WordSize

\* the 32-bit word stored little-endian at byte offset off of b
WordAt(b, off) ==
    b[off] + 256 * b[off + 1] + 65536 * b[off + 2] + 16777216 * b[off + 3]

\* C1: when a serialised stm32_rng_read returns, whatever the peripheral did and
\* whatever the blocking flag, the control register holds exactly the value the
\* call read from it at entry, which is the value it held before the call; in
\* particular the generator-enable bit is as it was.
C1_ControlRestored ==
    \A p \in procs :
        Returned(p) =>
            /\ regCR = cr[p]
            /\ regCR = hist.entryCR
            /\ HasBit(regCR, RNG_CR_RNGEN) = HasBit(hist.entryCR, RNG_CR_RNGEN)

\* a blocking call entered with the generator-enable bit and another control
\* bit set has returned after a hardware fault
C1_Witness ==
    \E p \in procs :
        /\ Returned(p) /\ wait[p] /\ hist.stop = "fault"
        /\ hist.entryCR = 12 /\ regCR = 12

C3_ClockBalanced ==
    /\ \A p \in procs :
        op[p] = "read" =>
            /\ ~hist.accOutside
            /\ hist.nClkEn <= 1 /\ hist.nClkDis <= hist.nClkEn
            /\ clkEnable = hist.entryEn + hist.nClkEn - hist.nClkDis
            /\ Returned(p) =>
                /\ hist.nClkEn = 1 /\ hist.nClkDis = 1
                /\ hist.disAfter
                /\ clkEnable = hist.entryEn
    /\ (\A p \in Procs : pc[p] = "idle") => clkEnable = 0

\* a call that stopped on a hardware fault has returned with the clock
\* enabled and disabled once each
C3_Witness ==
    \E p \in procs :
        /\ Returned(p) /\ hist.stop = "fault"
        /\ hist.nClkEn = 1 /\ hist.nClkDis = 1 /\ clkEnable = 0

\* C4: at every point of a stm32_rng_read of requested length L, the bytes
\* written are a multiple of 4 and at most floor(L/4)*4, they are the first
\* bytes of the buffer, and every byte at or beyond floor(L/4)*4 is unchanged.
C4_WordTruncation ==
    \A p \in procs :
        op[p] = "read" =>
            /\ BytesWritten(p) % WordSize = 0
            /\ BytesWritten(p) <= RoundDown(hist.len)
            /\ BytesWritten(p) = retval[p]
            /\ \A i \in DOMAIN buf[p] :
                   i >= retval[p] => buf[p][i] = InitBuf[i]
            /\ \A i \in DOMAIN buf[p] :
                   i >= RoundDown(hist.len) => buf[p][i] = InitBuf[i]

\* a call of length 7 has written one word and returned, bytes 4..6 untouched
C4_Witness ==
    \E p \in procs :
        /\ Returned(p) /\ hist.len = 7 /\ BytesWritten(p) = 4
        /\ buf[p][4] = InitBuf[4]

\* C5 as stated: with a peripheral that reports Data-Ready and no error flag
\* on every poll, stm32_rng_read of length L >= 4 returns floor(L/4)*4 for
\* either blocking flag; a blocking call of length 4 returns 4 and the first
\* word of the buffer is the value read from the data register.
C5_DrainsWholeWords ==
    \A p \in procs :
        (Returned(p) /\ hist.len >= WordSize /\ hist.nReady = hist.iter
            /\ ~hist.anyErr /\ hist.stop = "full") =>
            /\ result[p] = RoundDown(hist.len)
            /\ (hist.len = WordSize /\ wait[p]) =>
                /\ result[p] = WordSize
                /\ Len(hist.drLog) >= 1
                /\ WordAt(buf[p], 0) = hist.drLog[1]

\* C6 as stated: a non-blocking stm32_rng_read whose status reads never show
\* Data-Ready returns 0, leaves the buffer as it was, never reads the data
\* register and, when it enters the drain loop, reads the status register once.
C6_NonBlockingEmpty ==
    \A p \in procs :
        (Returned(p) /\ ~wait[p] /\ ~hist.anyDrdy) =>
            /\ result[p] = 0
            /\ buf[p] = InitBuf
            /\ hist.drLog = <<>>
            /\ hist.len > WordSize => (hist.iter = 1 /\ hist.srReads = 1)

\* C7 as stated: a blocking stm32_rng_read that enters the drain loop and
\* whose status reads never show Data-Ready nor an error flag reads the status
\* register RNG_TIMEOUT + 1 times (the first read and RNG_TIMEOUT re-polls),
\* writes nothing and returns -EIO.
C7_BlockingTimeout ==
    \A p \in procs :
        (Returned(p) /\ wait[p] /\ hist.len > WordSize
            /\ ~hist.anyDrdy /\ ~hist.anyErr) =>
            /\ result[p] = -EIO
            /\ buf[p] = InitBuf
            /\ hist.drLog = <<>>
            /\ hist.iter = 1 /\ hist.srReads = RNG_TIMEOUT + 1

C9_ResultPolicy ==
    \A p \in procs :
        Returned(p) =>
            /\ (result[p] = -EIO) = (wait[p] /\ BytesWritten(p) = 0)
            /\ ~(wait[p] /\ BytesWritten(p) = 0) => result[p] = BytesWritten(p)
            /\ ~wait[p] => result[p] >= 0
            /\ result[p] < 0 => result[p] = -EIO

\* a blocking call that wrote nothing returned -EIO, and a non-blocking call
\* that wrote nothing returned 0
C9_Witness ==
    \E p \in procs :
        /\ Returned(p) /\ BytesWritten(p) = 0 /\ hist.iter = 1
        /\ wait[p] /\ result[p] = -EIO /\ hist.stop = "timeout"

\* C10 as stated: stm32_rng_read reads the data register only right after a
\* status snapshot that has Data-Ready set, whatever the other status bits.
C10_ReadOnlyWhenReady ==
    \A p \in procs :
        /\ pc[p] = "read_dr" => HasBit(sr[p], RNG_SR_DRDY)
        /\ op[p] = "read" => ~hist.drNotReady

(* ------------------------------------------------------------------------ *)
(* Properties of stm32_rng_init and stm32_rng_cleanup                       *)
(* ------------------------------------------------------------------------ *)

\* context p has returned from stm32_rng_init
InitDone(p) == op[p] = "init" /\ pc[p] = "idle"

\* the call recorded in h touched no register
NoRegisterAccess(h) ==
    /\ h.srReads = 0 /\ h.crReads = 0 /\ h.drLog = <<>>
    /\ h.crWrites = <<>> /\ h.srWrites = <<>>

\* C11: stm32_rng_init returns clk_prepare's error when it fails, having
\* touched no register and prepared nothing; when clk_prepare succeeds it
\* returns 0 with the clock prepared and not enabled, having read the status
\* register once and written it back once with Seed-Error and Clock-Error
\* cleared and every other bit as read; it never writes the control register
\* nor reads the data register.
C11_InitContract ==
    \A p \in procs :
        /\ op[p] = "init" =>
              /\ hist.crWrites = <<>> /\ hist.crReads = 0 /\ hist.drLog = <<>>
              /\ clkEnable = 0
        /\ (InitDone(p) /\ result[p] # 0) =>
              /\ result[p] \in PrepareErrors
              /\ clkPrepare = 0
              /\ NoRegisterAccess(hist)
        /\ (InitDone(p) /\ result[p] = 0) =>
              /\ clkPrepare = 1
              /\ hist.srReads = 1
              /\ Len(hist.srWrites) = 1
              /\ ~HasBit(hist.srWrites[1], RNG_SR_SEIS)
              /\ ~HasBit(hist.srWrites[1], RNG_SR_CEIS)
              /\ hist.srWrites[1] + ErrBits(hist.srSeen) = hist.srSeen
              /\ regSR = 0

\* stm32_rng_init has succeeded on a status register that read Data-Ready, the
\* unnamed bit and both error flags (0x63), and wrote 0x03 back
C11_Witness ==
    \E p \in procs :
        /\ InitDone(p) /\ result[p] = 0 /\ clkPrepare = 1
        /\ hist.srSeen = 99 /\ hist.srWrites = <<3>>

\* context p has returned from stm32_rng_cleanup
CleanupDone(p) == op[p] = "cleanup" /\ pc[p] = "idle"

\* C12: after a successful stm32_rng_init, any number of serialised
\* stm32_rng_read calls and stm32_rng_cleanup, the clock's prepare count and
\* enable count are what they were before stm32_rng_init (zero), and the step
\* of stm32_rng_cleanup leaves the control register, the status register and
\* the generator as they were.
C12_RoundTrip ==
    /\ [](\A p \in procs :
            /\ CleanupDone(p) =>
                  clkPrepare = 0 /\ clkEnable = 0 /\ NoRegisterAccess(hist)
            /\ (pc[p] = "init_prepare") => clkPrepare = 0 /\ clkEnable = 0)
    /\ [][clkPrepare' < clkPrepare =>
             /\ clkPrepare' = clkPrepare - 1
             /\ clkEnable' = clkEnable
             /\ <<regCR, regSR, notReady>>' = <<regCR, regSR, notReady>>]_vars

\* stm32_rng_cleanup has run after stm32_rng_init and at least one
\* stm32_rng_read, and the clock is neither prepared nor enabled
C12_Witness ==
    \E p \in procs :
        CleanupDone(p) /\ hist.filled /\ clkPrepare = 0 /\ clkEnable = 0

(* ------------------------------------------------------------------------ *)
(* Further properties of stm32_rng_read                                     *)
(* ------------------------------------------------------------------------ *)

\* C14: once a status read of stm32_rng_read has returned a value with
\* Seed-Error or Clock-Error set, the call reads neither the status register
\* nor the data register again, even when Data-Ready is set in that value and
\* even when the blocking wait has budget left: the next step tests the flags
\* and leaves the drain loop.
C14_FaultStopsLoop ==
    \A p \in procs :
        op[p] = "read" =>
            /\ ~hist.afterErr
            /\ pc[p] \in {"read_sr", "poll", "read_dr", "loop"} => ~hist.anyErr
            /\ pc[p] \in {"poll", "read_dr"} => ErrBits(sr[p]) = 0
            /\ (hist.anyErr /\ pc[p] = "check") => ErrBits(sr[p]) # 0
            /\ (hist.anyErr /\ pc[p] \in {"restore", "clk_disable", "return", "idle"})
                  => hist.stop = "fault" /\ ErrBits(hist.srSeen) # 0

\* a blocking call whose first re-poll returned Data-Ready with Seed-Error
\* (0x41) has returned after two status reads, without a data read
C14_Witness ==
    \E p \in procs :
        /\ Returned(p) /\ wait[p] /\ hist.stop = "fault"
        /\ hist.srSeen = 65 /\ hist.srReads = 2 /\ hist.iter = 1
        /\ hist.drLog = <<>> /\ result[p] = -EIO

\* the four bytes at offset off of b are the little-endian bytes of w
WordIs(b, off, w) == \A k \in 0..(WordSize - 1) : b[off + k] = ByteOf(w, k)

\* C15: when stm32_rng_read returns a count n > 0, it has read the data
\* register n/4 times, the i-th word of the buffer is the value the i-th of
\* those reads returned, and no byte at or beyond offset n was modified.
C15_BufferHoldsReads ==
    \A p \in procs :
        (Returned(p) /\ result[p] > 0) =>
            /\ Len(hist.drLog) * WordSize = result[p]
            /\ \A i \in 1..Len(hist.drLog) :
                   WordIs(buf[p], WordSize * (i - 1), hist.drLog[i])
            /\ \A j \in DOMAIN buf[p] :
                   j >= result[p] => buf[p][j] = InitBuf[j]

\* a call has returned 12 after three data reads whose values differ
C15_Witness ==
    \E p \in procs :
        /\ Returned(p) /\ result[p] = 12
        /\ hist.drLog = <<16909060, 2053856333, 16909060>>
        /\ WordIs(buf[p], 4, 2053856333)
        /\ buf[p][12] = InitBuf[12]

\* C16: with c the control register before a serialised stm32_rng_read, the
\* writes the call makes to the control register are c with generator-enable
\* set, at entry, and c, at exit, and nothing else; so no control bit other
\* than generator-enable changes during the call.  The call writes nothing to
\* the status register (and the model has no step that writes the data
\* register, as the source has none).
C16_ReadModifyWrite ==
    \A p \in procs :
        op[p] = "read" =>
            LET c == hist.entryCR
                W == <<OrBit(c, RNG_CR_RNGEN), c>>
            IN  /\ Len(hist.crWrites) <= 2
                /\ \A i \in 1..Len(hist.crWrites) : hist.crWrites[i] = W[i]
                /\ Returned(p) => hist.crWrites = W
                /\ ClearBit(regCR, RNG_CR_RNGEN) = ClearBit(c, RNG_CR_RNGEN)
                /\ regCR \in {c, OrBit(c, RNG_CR_RNGEN)}
                /\ hist.srWrites = <<>>

\* a call entered with only control bit 3 set has written 12 and then 8
C16_Witness ==
    \E p \in procs :
        /\ Returned(p) /\ hist.entryCR = 8 /\ hist.crWrites = <<12, 8>>
        /\ regCR = 8 /\ retval[p] > 0

\* the most steps one pass of the drain loop takes: the loop test, the first
\* status read, RNG_TIMEOUT polls, the checks and the data read
IterSteps == RNG_TIMEOUT + 4

\* an upper bound on the steps context p still takes before stm32_rng_read
\* returns, 0 once it has returned
Measure(p) ==
    LET left == 4 + IterSteps * (max[p] \div WordSize) IN
    CASE pc[p] = "idle"        -> 0
      [] pc[p] = "return"      -> 1
      [] pc[p] = "clk_disable" -> 2
      [] pc[p] = "restore"     -> 3
      [] pc[p] = "loop"        -> left
      [] pc[p] = "read_sr"     -> left - 1
      [] pc[p] = "poll"        -> left - IterSteps + 2 + timeout[p]
      [] pc[p] = "check"       -> left - IterSteps + 2
      [] pc[p] = "read_dr"     -> left - IterSteps + 1
      [] pc[p] = "enable_gen"  -> left + 1
      [] pc[p] = "read_cr"     -> left + 2
      [] pc[p] = "clk_enable"  -> left + 3
      [] OTHER                 -> 0

\* C17: stm32_rng_read terminates: every step of a call strictly decreases a
\* natural-number bound on the steps left.  The poll budget is RNG_TIMEOUT
\* afresh in each pass of the loop, a pass makes at most RNG_TIMEOUT + 1 status
\* reads (1 when wait is false), there are at most floor(len / 4) passes, and
\* each pass that does not stop the loop takes 4 from the remaining space.
C17_FillTerminates ==
    /\ [](\A p \in procs :
            (op[p] = "read" /\ pc[p] # "idle") =>
                /\ Measure(p) > 0
                /\ hist.srReads <= RNG_TIMEOUT + 1
                /\ ~wait[p] => hist.srReads <= 1
                /\ hist.iter <= hist.len \div WordSize
                /\ max[p] = hist.len - WordSize * Len(hist.drLog)
                /\ pc[p] = "loop" => hist.iter = Len(hist.drLog)
                /\ pc[p] = "poll" =>
                       /\ wait[p]
                       /\ timeout[p] \in 1..RNG_TIMEOUT
                       /\ hist.srReads + timeout[p] = RNG_TIMEOUT + 1)
    /\ [][\A p \in procs :
            (op[p] = "read" /\ pc[p] # "idle") => Measure(p)' < Measure(p)]_vars

\* a blocking call whose second pass used its whole budget after the first
\* pass had stored a word
C17_Witness ==
    \E p \in procs :
        /\ Returned(p) /\ wait[p] /\ hist.iter = 2 /\ Len(hist.drLog) = 1
        /\ hist.srReads = RNG_TIMEOUT + 1 /\ hist.stop = "timeout"
        /\ retval[p] = WordSize

C20_ClockedAccess ==
    \A p \in procs :
        /\ op[p] \in {"init", "read", "cleanup"} => ~hist.unclocked
        /\ op[p] = "read" => ~hist.genOff

(* ------------------------------------------------------------------------ *)
(* stm32_rng_probe and stm32_rng_remove                                     *)
(* ------------------------------------------------------------------------ *)

\* the binding before stm32_rng_probe has run
Unbound ==
    [ pc |-> "unbound", priv |-> FALSE, base |-> FALSE, clkh |-> FALSE,
      registered |-> FALSE, err |-> 0, errSet |-> FALSE, ret |-> 0,
      failed |-> "none" ]

\* -ENOMEM
ENOMEM == 12

\* error codes hwrng_register may return (-EINVAL, -EEXIST)
RegisterErrors == {-22, -17}

\* the values a read of the unassigned local err may yield
UninitValues == {-ENOMEM, 0, 1}

\* the state before the device is bound: as Init, with no driver instance yet
InitProbe ==
    /\ regCR \in ControlValues
    /\ regSR \in {0, RNG_SR_CEIS, RNG_SR_SEIS, RNG_SR_CEIS + RNG_SR_SEIS}
    /\ notReady = 0
    /\ clkPrepare = 0
    /\ clkEnable = 0
    /\ procs = {}
    /\ bind = Unbound
    /\ pc = [p \in Procs |-> "idle"]
    /\ op = [p \in Procs |-> "none"]
    /\ cr = [p \in Procs |-> 0]
    /\ sr = [p \in Procs |-> 0]
    /\ retval = [p \in Procs |-> 0]
    /\ data = [p \in Procs |-> 0]
    /\ max = [p \in Procs |-> 0]
    /\ wait = [p \in Procs |-> FALSE]
    /\ timeout = [p \in Procs |-> 0]
    /\ buf = [p \in Procs |-> InitBuf]
    /\ result = [p \in Procs |-> 0]
    /\ hist = NoHist

\* what stm32_rng_probe leaves alone until it registers the hwrng
ProbeFrame == UNCHANGED <<hw, clk, pc, op, locals, hist>>

\* the platform calls stm32_rng_probe on a device that is not bound
ProbeStart ==
    /\ bind.pc \in {"unbound", "returned"}
    /\ ~bind.registered
    /\ bind' = [Unbound EXCEPT !.pc = "alloc"]
    /\ UNCHANGED procs
    /\ ProbeFrame

\* priv = kzalloc(...); if (!priv) return -ENOMEM; dev_set_drvdata(dev, priv);
ProbeAlloc ==
    /\ bind.pc = "alloc"
    /\ \E ok \in BOOLEAN :
        bind' = IF ok
                  THEN [bind EXCEPT !.priv = TRUE, !.pc = "iomap"]
                  ELSE [bind EXCEPT !.failed = "alloc", !.ret = -ENOMEM,
                                    !.pc = "returned"]
    /\ UNCHANGED procs
    /\ ProbeFrame

\* priv->base = of_iomap(np, 0); if (!priv->base) { err = -ENOMEM; goto err_out; }
ProbeIomap ==
    /\ bind.pc = "iomap"
    /\ \E ok \in BOOLEAN :
        bind' = IF ok
                  THEN [bind EXCEPT !.base = TRUE, !.pc = "clk_get"]
                  ELSE [bind EXCEPT !.failed = "iomap", !.err = -ENOMEM,
                                    !.errSet = TRUE, !.pc = "err_out"]
    /\ UNCHANGED procs
    /\ ProbeFrame

\* the binding after devm_clk_get returned an error pointer: goto err_out
ClkGetFailed(b) == [b EXCEPT !.failed = "clk", !.pc = "err_out"]

\* priv->clk = devm_clk_get(...); if (IS_ERR(priv->clk)) { ...; goto err_out; }
ProbeClkGet ==
    /\ bind.pc = "clk_get"
    /\ \E ok \in BOOLEAN :
        bind' = IF ok
                  THEN [bind EXCEPT !.clkh = TRUE, !.pc = "register"]
                  ELSE ClkGetFailed(bind)
    /\ UNCHANGED procs
    /\ ProbeFrame

\* err = hwrng_register(&priv->rng); if (err) { ...; goto err_out; } return 0;
ProbeRegister ==
    /\ bind.pc = "register"
    /\ \/ /\ bind' = [bind EXCEPT !.registered = TRUE, !.err = 0,
                                  !.errSet = TRUE, !.ret = 0, !.pc = "returned"]
          /\ procs' = {1}
       \/ /\ \E e \in RegisterErrors :
                bind' = [bind EXCEPT !.failed = "register", !.err = e,
                                     !.errSet = TRUE, !.pc = "err_out"]
          /\ UNCHANGED procs
    /\ ProbeFrame

\* the value of the local err when it is returned
ErrValues(b) == IF b.errSet THEN {b.err} ELSE UninitValues

\* err_out: stm32_rng_remove(ofdev); return err;
ProbeErrOut ==
    /\ bind.pc = "err_out"
    /\ \E r \in ErrValues(bind) :
        bind' = [bind EXCEPT !.registered = FALSE, !.base = FALSE,
                             !.priv = FALSE, !.ret = r, !.pc = "returned"]
    /\ UNCHANGED procs
    /\ ProbeFrame

\* the platform unbinds the device: stm32_rng_remove, once the framework has
\* let go of the hwrng
Remove ==
    /\ bind.pc = "returned"
    /\ bind.registered
    /\ \A p \in Procs : pc[p] = "idle"
    /\ clkPrepare = 0
    /\ bind' = Unbound
    /\ procs' = {}
    /\ ProbeFrame

NextProbe ==
    \/ ProbeStart
    \/ ProbeAlloc
    \/ ProbeIomap
    \/ ProbeClkGet
    \/ ProbeRegister
    \/ ProbeErrOut
    \/ Remove
    \/ Next

SpecProbe == InitProbe /\ [][NextProbe]_vars

\* C13 as stated: whenever an acquisition step of stm32_rng_probe fails
\* (allocation, register mapping, clock handle, hwrng registration), probe
\* returns a non-zero error code; a probe that returns 0 has every resource.
C13_ProbeSurfacesErrors ==
    bind.pc = "returned" =>
        /\ bind.failed # "none" => bind.ret # 0
        /\ bind.ret = 0 =>
              bind.priv /\ bind.base /\ bind.clkh /\ bind.registered


(* ------------------------------------------------------------------------ *)
(* stm32_rng_read without the framework's serialisation                     *)
(* ------------------------------------------------------------------------ *)

\* the most calls of stm32_rng_read between two moments at which no context
\* is inside the driver
MaxCalls == 2

\* the contexts inside the driver
InFlight == {q \in Procs : pc[q] # "idle"}

\* the calls entered since no context was inside the driver
CallsSoFar == hist.nClkEn + Cardinality({q \in Procs : pc[q] = "clk_enable"})

\* an initialised instance that two contexts may enter at once, no error
\* latched
InitOverlap ==
    /\ regCR \in ControlValues
    /\ regSR = 0
    /\ notReady = 0
    /\ clkPrepare = 1
    /\ clkEnable = 0
    /\ procs = Procs
    /\ bind = Bound
    /\ pc = [p \in Procs |-> "idle"]
    /\ op = [p \in Procs |-> "none"]
    /\ cr = [p \in Procs |-> 0]
    /\ sr = [p \in Procs |-> 0]
    /\ retval = [p \in Procs |-> 0]
    /\ data = [p \in Procs |-> 0]
    /\ max = [p \in Procs |-> 0]
    /\ wait = [p \in Procs |-> FALSE]
    /\ timeout = [p \in Procs |-> 0]
    /\ buf = [p \in Procs |-> InitBuf]
    /\ result = [p \in Procs |-> 0]
    /\ hist = NoHist

\* the lengths the overlapping callers pass: the first context has no room
\* for a word or room for one pass of the loop, the second has no room.  The
\* callers do not block: the busy-wait of lines 68-75 touches neither the
\* control register nor the clock.
OverlapLens(p) == IF p = 1 THEN {0, 2 * WordSize} ELSE {0}

\* read(rng, data, max, wait) entered whether or not another context is
\* inside stm32_rng_read: the function takes no lock (lines 54-97).  The
\* history starts afresh only when the instance is quiescent, so that entryCR
\* is the control register before the first of the overlapping calls.
CallReadOverlap(p) ==
    /\ p \in procs
    /\ pc[p] = "idle"
    /\ clkPrepare > 0
    /\ InFlight # {} => CallsSoFar < MaxCalls
    /\ \E m \in OverlapLens(p), w \in {FALSE} :
        /\ max' = [max EXCEPT ![p] = m]
        /\ wait' = [wait EXCEPT ![p] = w]
        /\ hist' = IF InFlight = {}
                     THEN [NoHist EXCEPT !.entryCR = regCR,
                                         !.entryEn = clkEnable, !.len = m,
                                         !.entryLatch = regSR, !.filled = TRUE]
                     ELSE hist
    /\ retval' = [retval EXCEPT ![p] = 0]
    /\ data' = [data EXCEPT ![p] = 0]
    /\ buf' = [buf EXCEPT ![p] = InitBuf]
    /\ cr' = [cr EXCEPT ![p] = 0]
    /\ sr' = [sr EXCEPT ![p] = 0]
    /\ timeout' = [timeout EXCEPT ![p] = 0]
    /\ result' = [result EXCEPT ![p] = 0]
    /\ op' = [op EXCEPT ![p] = "read"]
    /\ pc' = [pc EXCEPT ![p] = "clk_enable"]
    /\ UNCHANGED <<hw, clk, procs, bind>>

NextOverlap ==
    \E p \in Procs :
        \/ CallReadOverlap(p)
        \/ ReadClkEnable(p)
        \/ ReadCR(p)
        \/ WriteEnable(p)
        \/ LoopTest(p)
        \/ ReadSR(p)
        \/ Check(p)
        \/ ReadDR(p)
        \/ Restore(p)
        \/ ReadClkDisable(p)
        \/ ReadReturn(p)

SpecOverlap == InitOverlap /\ [][NextOverlap]_vars

\* C18: stm32_rng_read takes no lock, so its restore rests on the callers'
\* serialisation.  When overlapping calls have all returned, the control
\* register holds whatever the context that restored last had read at its
\* own entry, which is the value before the first call only if that read came
\* before every enable write; generator-enable is left set, though clear
\* before the first call, only after calls that overlapped.
C18_LastRestoreWins ==
    (InFlight = {} /\ hist.restorer \in Procs) =>
        /\ regCR = cr[hist.restorer]
        /\ regCR \in {hist.entryCR, OrBit(hist.entryCR, RNG_CR_RNGEN)}
        /\ (HasBit(regCR, RNG_CR_RNGEN) /\ ~HasBit(hist.entryCR, RNG_CR_RNGEN))
               => hist.nClkEn > 1

\* both calls have returned and generator-enable is set, though it was clear
\* before the first of them
C18_Witness ==
    /\ Returned(1) /\ Returned(2)
    /\ hist.nClkEn = 2 /\ hist.nClkDis = 2 /\ clkEnable = 0
    /\ ~HasBit(hist.entryCR, RNG_CR_RNGEN)
    /\ HasBit(regCR, RNG_CR_RNGEN)

====
